---- MODULE Spec2Model ----
(***************************************************************************)
(* Model of scripts/package-build/build.py: the package build pipeline.    *)
(*                                                                         *)
(* One run of the script is: load the configuration, install the global    *)
(* dependencies, then for every job table build_package, cleanup_build_deps *)
(* and copy_packages.  External commands (git, tar, apt-get, dpkg, the      *)
(* build command) are opaque: each invocation with check=True either exits *)
(* zero or raises CalledProcessError.  File names, job names and commit    *)
(* references are sequences of one-character strings, so that sorting and  *)
(* str.replace are computed, not assumed.                                  *)
(***************************************************************************)
EXTENDS Integers, Sequences, FiniteSets, TLC

(* ------------------------------ bounds --------------------------------- *)
\* longest job list of one configuration document
MaxJobs == 2
\* number of times the script is started against the same filesystem
MaxRuns == 2
\* largest number of entries of one per-job patch directory
MaxPatches == 2

(* ------------------------------ strings -------------------------------- *)
\* code points of the characters that occur in the modelled file names
Ord(c) ==
    CASE c = "\n" -> 10
      [] c = "."  -> 46
      [] c = "/"  -> 47
      [] c = "1"  -> 49
      [] c = "B"  -> 66
      [] c = "_"  -> 95
      [] c = "a"  -> 97
      [] c = "b"  -> 98
      [] c = "c"  -> 99
      [] c = "e"  -> 101
      [] c = "f"  -> 102
      [] c = "g"  -> 103
      [] c = "o"  -> 111
      [] c = "p"  -> 112
      [] c = "r"  -> 114
      [] c = "t"  -> 116
      [] c = "u"  -> 117
      [] c = "v"  -> 118
      [] c = "x"  -> 120
      [] c = "y"  -> 121
      [] c = "z"  -> 122

\* Python's str < str: lexicographic by code point, a proper prefix first
RECURSIVE StrLess(_, _)
StrLess(s, t) ==
    IF t = <<>> THEN FALSE
    ELSE IF s = <<>> THEN TRUE
    ELSE IF Head(s) = Head(t) THEN StrLess(Tail(s), Tail(t))
    ELSE Ord(Head(s)) < Ord(Head(t))

\* str.replace(old, new) for one-character old and new: every occurrence
StrReplace(s, old, new) ==
    [k \in 1..Len(s) |-> IF s[k] = old THEN new ELSE s[k]]

(* ------------------------- configuration ------------------------------- *)
\* job names: also the names of the working directories
Names == { <<"f","o","o">>, <<"x","/","y">> }
\* commit references
Commits == { <<"f","e","a","t","u","r","e","/","x">>, <<"a","/","b","/","c">> }

\* the shell commands the script runs
GitClone      == "git clone"
GitCheckout   == "git checkout"
TarCzf        == "tar -czf"
MkBuildDeps   == "sudo mk-build-deps --install"
DpkgBuildDeps == "sudo dpkg -i *build-deps*.deb"
AptUpdate     == "sudo apt-get update"
AptInstall    == "sudo apt-get install -y"
\* line 155 and line 160: the two default build commands
DefaultBuildCmd  == "dpkg-buildpackage -uc -us -tc -F"
FallbackBuildCmd == "dpkg-buildpackage -uc -us -tc -b"
\* values a job table may give to its optional keys
HookCmd     == "./pre-build.sh"
CustomBuild == "make deb"
InstallData == "usr/bin/tool"

OptionalKeys ==
    {"pre_build_hook", "apply_patches", "prepare_package", "install_data", "build_cmd"}

KeyValues(k) ==
    CASE k = "pre_build_hook"  -> {HookCmd}
      [] k = "apply_patches"   -> BOOLEAN
      [] k = "prepare_package" -> {TRUE}
      [] k = "install_data"    -> {InstallData}
      [] k = "build_cmd"       -> {CustomBuild}

\* the repositories the job tables name as scm_url
Urls == { "https://example.org/one.git", "https://example.org/other.git" }

\* every job table over the required keys plus any subset K of the optional keys
RECURSIVE Tables(_)
Tables(K) ==
    IF K = {}
    THEN [name : Names, commit_id : Commits, scm_url : Urls]
    ELSE LET k == CHOOSE x \in K : TRUE
         IN  { (k :> v) @@ t : v \in KeyValues(k), t \in Tables(K \ {k}) }

Packages == UNION { Tables(K) : K \in SUBSET OptionalKeys }

\* dict.get(key, default)
Get(d, key, default) == IF key \in DOMAIN d THEN d[key] ELSE default

\* the dependency lists of the configuration documents
DependencyLists == { <<>>, <<"build-essential">> }

(* ------------------------------ filesystem ----------------------------- *)
NoFile == [exists |-> FALSE, text |-> <<>>]
NoDir  == [exists |-> FALSE, files |-> {}]

\* names of the files found in per-job patch directories
PatchNames == { <<"a",".","p">>, <<"b",".","p">>, <<"a","b">>, <<"B">> }

\* a per-job patch directory: absent, a plain file, or a directory of at most
\* MaxPatches entries
PatchDirs ==
    { [kind |-> "absent", entries |-> {}], [kind |-> "file", entries |-> {}] }
    \cup { [kind |-> "dir", entries |-> S] :
             S \in { T \in SUBSET PatchNames : Cardinality(T) <= MaxPatches } }

\* what a fresh clone holds under debian/patches: nothing, an empty series
\* manifest, or a series manifest of upstream's own with the patch it lists
UpstreamPatch == <<"z">>
NoPatches == [series |-> NoFile, patches |-> NoDir]
UpstreamTrees ==
    { NoPatches,
      [series  |-> [exists |-> TRUE, text |-> <<>>],
       patches |-> [exists |-> TRUE, files |-> {}]],
      [series  |-> [exists |-> TRUE, text |-> UpstreamPatch \o <<"\n">>],
       patches |-> [exists |-> TRUE, files |-> {UpstreamPatch}]] }

PackageDeb   == "package.deb"
BuildDepsDeb == "package-build-deps.deb"

(* ------------------------------- state --------------------------------- *)
VARIABLES
    pc,            \* the statement the script is at
    run,           \* how many times the script was started
    document,      \* the configuration document at args.config
    i,             \* position of the job the loop is at (0 before the loop)
    failed,        \* positions of the jobs whose outer handler was entered
    exitCode,      \* exit status of the process, once pc = "exited"
    abortedBy,     \* the function whose exception left the script, or ""
    aptCmds,       \* the apt-get invocations of ensure_dependencies
    job,           \* the job at hand: its table and what was done for it
    workdirs,      \* names of the working directories on disk
    origin,        \* the scm_url each working directory was cloned from
    upstream,      \* what the repository at scm_url holds, per job name
    patchDir,      \* <patch-dir>/<name>, per job name
    series,        \* <name>/debian/patches/series, per job name
    debianPatches, \* <name>/debian/patches, per job name
    debs           \* the *.deb files in <name>/, per job name

ctl  == <<run, document, i, failed, exitCode, abortedBy, aptCmds>>
tree == <<series, debianPatches>>
fs   == <<workdirs, origin, upstream, patchDir, series, debianPatches, debs>>
vars == <<pc, run, document, i, failed, exitCode, abortedBy, aptCmds,
          job, workdirs, origin, upstream, patchDir, series, debianPatches, debs>>

NoInstall == [exists |-> FALSE, text |-> ""]

\* what is recorded about one job; `package` is the job table
NewJob(package) ==
    [ package  |-> package,
      trace    |-> <<>>,       \* the steps executed, in order
      cmds     |-> <<>>,       \* the commands run, each with whether it exited 0
      log      |-> <<>>,       \* the diagnostic lines printed
      subdir   |-> FALSE,      \* whether <name>/patches exists in the checkout
      control  |-> FALSE,      \* whether <name>/debian/control exists in it
      copies   |-> <<>>,       \* the shutil.copy calls of apply_patches, in order
      tarball  |-> <<>>,       \* name of the tarball created
      install  |-> NoInstall,  \* debian/install as written by prepare_package
      removed  |-> {},         \* files removed by cleanup_build_deps
      copied   |-> {} ]        \* files copied by copy_packages

NoPackage == [name |-> <<>>, commit_id |-> <<>>, scm_url |-> ""]
NoJob == NewJob(NoPackage)

\* run(cmd, check=True) was called and exited zero (ok) or non-zero
Ran(j, cmd, ok) == [j EXCEPT !.cmds = Append(@, [cmd |-> cmd, ok |-> ok])]
Step(j, step)   == [j EXCEPT !.trace = Append(@, step)]
Logged(j, lines) == [j EXCEPT !.log = @ \o lines]

Line(msg, name, e) == [msg |-> msg, name |-> name, e |-> e]
\* str(CalledProcessError), as print(e) shows it
NonZeroExit == "Command returned non-zero exit status"

(* --------------------------- Patch Applier ----------------------------- *)
\* variant of sorted: patch_dir.glob('*') left as the directory yields it,
\* here the other way round
RECURSIVE unsorted(_)
unsorted(S) ==
    IF S = {} THEN <<>>
    ELSE LET m == CHOOSE x \in S : \A y \in S \ {x} : StrLess(y, x)
         IN  <<m>> \o unsorted(S \ {m})

\* sorted(patch_dir.glob('*')): the entries in ascending order of file name
RECURSIVE sorted(_)
sorted(S) ==
    IF S = {} THEN <<>>
    ELSE LET m == CHOOSE x \in S : \A y \in S \ {x} : StrLess(x, y)
         IN  <<m>> \o sorted(S \ {m})

\* the text the loop of lines 55-59 writes: patch.name + '\n' for every patch
RECURSIVE SeriesLines(_)
SeriesLines(patches) ==
    IF patches = <<>> THEN <<>>
    ELSE Head(patches) \o <<"\n">> \o SeriesLines(Tail(patches))

Range(q) == { q[k] : k \in 1..Len(q) }

\* variant of apply_patches: debian/patches and the manifest are created
\* before the patch directory is looked at
apply_patches_eager(repo, pd) ==
    LET patches == IF pd.kind = "dir" THEN sorted(pd.entries) ELSE <<>> IN
    [ series  |-> [exists |-> TRUE, text |-> repo.series.text \o SeriesLines(patches)],
      patches |-> [exists |-> TRUE, files |-> repo.patches.files \cup Range(patches)],
      copies  |-> patches,
      log     |-> IF patches = <<>>
                  THEN << Line("I: No patches found", <<>>, "") >>
                  ELSE [k \in 1..Len(patches) |-> Line("I: Applied patch", patches[k], "")] ]

\* variant of apply_patches: the manifest is opened with 'w', not 'a'
apply_patches_overwrite(repo, pd) ==
    IF pd.kind # "dir"
    THEN [ series |-> repo.series, patches |-> repo.patches, copies |-> <<>>,
           log |-> << Line("I: Patch directory does not exist, skipping patch application", <<>>, "") >> ]
    ELSE LET patches == sorted(pd.entries) IN
         IF patches = <<>>
         THEN [ series |-> repo.series, patches |-> repo.patches, copies |-> <<>>,
                log |-> << Line("I: No patches found", <<>>, "") >> ]
         ELSE [ series  |-> [exists |-> TRUE, text |-> SeriesLines(patches)],
                patches |-> [exists |-> TRUE,
                             files  |-> repo.patches.files \cup Range(patches)],
                copies  |-> patches,
                log     |-> [k \in 1..Len(patches) |->
                                Line("I: Applied patch", patches[k], "")] ]

\* apply_patches(repo_dir, patch_dir), as a function of the series manifest and
\* the debian/patches directory of the checkout and of the patch directory pd;
\* the result also lists the copies made and the lines printed
apply_patches(repo, pd) ==
    IF pd.kind # "dir"
    THEN [ series |-> repo.series, patches |-> repo.patches, copies |-> <<>>,
           log |-> << Line("I: Patch directory does not exist, skipping patch application", <<>>, "") >> ]
    ELSE LET patches == sorted(pd.entries) IN
         IF patches = <<>>
         THEN [ series |-> repo.series, patches |-> repo.patches, copies |-> <<>>,
                log |-> << Line("I: No patches found", <<>>, "") >> ]
         ELSE [ series  |-> [exists |-> TRUE,
                             text   |-> repo.series.text \o SeriesLines(patches)],
                patches |-> [exists |-> TRUE,
                             files  |-> repo.patches.files \cup Range(patches)],
                copies  |-> patches,
                log     |-> [k \in 1..Len(patches) |->
                                Line("I: Applied patch", patches[k], "")] ]

(* --------------------------- Package Preparer -------------------------- *)
\* variant of prepare_package: the handler prints and does not raise again
prepare_package_swallow(install, install_data, oserror) ==
    IF install_data = ""
    THEN [ install |-> install, raised |-> FALSE,
           log |-> << Line("I: No install data provided, skipping package preparation", <<>>, "") >> ]
    ELSE IF oserror
    THEN [ install |-> install, raised |-> FALSE,
           log |-> << Line("Failed to prepare package", <<>>, "OSError") >> ]
    ELSE [ install |-> [exists |-> TRUE, text |-> install_data], raised |-> FALSE,
           log |-> << Line("I: Prepared package", <<>>, "") >> ]

\* prepare_package(repo_dir, install_data); oserror says whether mkdir or
\* write_text raises.  `raised` is whether the exception leaves the function.
prepare_package(install, install_data, oserror) ==
    IF install_data = ""
    THEN [ install |-> install, raised |-> FALSE,
           log |-> << Line("I: No install data provided, skipping package preparation", <<>>, "") >> ]
    ELSE IF oserror
    THEN [ install |-> install, raised |-> TRUE,
           log |-> << Line("Failed to prepare package", <<>>, "OSError") >> ]
    ELSE [ install |-> [exists |-> TRUE, text |-> install_data], raised |-> FALSE,
           log |-> << Line("I: Prepared package", <<>>, "") >> ]

(* ------------------------------ tarball -------------------------------- *)
\* variant of TarballName: the whole stem is sanitized, not the commit alone
TarballNameSanitized(package) ==
    StrReplace(package.name \o <<"_">> \o package.commit_id, "/", "_")
        \o <<".", "t", "a", "r", ".", "g", "z">>

\* lines 136-137: f"{repo_name}_{commit_id_sanitized}.tar.gz"
TarballName(package) ==
    package.name \o <<"_">> \o StrReplace(package.commit_id, "/", "_")
                 \o <<".", "t", "a", "r", ".", "g", "z">>

(* ------------------------ Dependency Installer -------------------------- *)
\* variant of ensure_dependencies: both commands run without check=True
ensure_dependencies_unchecked(deps, updateOk, installOk) ==
    IF deps = <<>>
    THEN [cmds |-> <<>>, raised |-> FALSE]
    ELSE [cmds |-> << [cmd |-> AptUpdate, ok |-> updateOk],
                      [cmd |-> AptInstall, ok |-> installOk] >>,
          raised |-> FALSE]

\* ensure_dependencies(dependencies); updateOk and installOk are the exit
\* statuses of the two apt-get commands.  `raised`: CalledProcessError left it.
ensure_dependencies(deps, updateOk, installOk) ==
    IF deps = <<>>
    THEN [cmds |-> <<>>, raised |-> FALSE]
    ELSE IF ~updateOk
    THEN [cmds |-> << [cmd |-> AptUpdate, ok |-> FALSE] >>, raised |-> TRUE]
    ELSE [cmds |-> << [cmd |-> AptUpdate, ok |-> TRUE],
                      [cmd |-> AptInstall, ok |-> installOk] >>,
          raised |-> ~installOk]

(* ------------------------- Artifact Collector --------------------------- *)
\* variant of cleanup_build_deps: the pattern matches no file, so nothing is
\* removed
cleanup_build_deps_keep(exists, files, done) ==
    IF ~exists
    THEN [files |-> files, removed |-> {}, raised |-> FALSE, log |-> <<>>]
    ELSE [files |-> files, removed |-> {}, raised |-> FALSE,
          log |-> << Line("I: Cleaned up build dependency packages", <<>>, "") >>]

\* variant of cleanup_build_deps: the exception of os.remove is not caught
cleanup_build_deps_uncaught(exists, files, done) ==
    LET found == files \cap {BuildDepsDeb} IN
    IF ~exists
    THEN [files |-> files, removed |-> {}, raised |-> FALSE, log |-> <<>>]
    ELSE IF done = found
    THEN [files |-> files \ found, removed |-> found, raised |-> FALSE,
          log |-> << Line("I: Cleaned up build dependency packages", <<>>, "") >>]
    ELSE [files |-> files \ done, removed |-> done, raised |-> TRUE, log |-> <<>>]

\* cleanup_build_deps(repo_dir): files are the *.deb files of the working
\* directory; done are the build-dependency packages os.remove got to before
\* it raised (all of them when it did not raise).  `raised` is whether the
\* exception leaves the function.
cleanup_build_deps(exists, files, done) ==
    LET found == files \cap {BuildDepsDeb} IN
    IF ~exists
    THEN [files |-> files, removed |-> {}, raised |-> FALSE, log |-> <<>>]
    ELSE IF done = found
    THEN [files |-> files \ found, removed |-> found, raised |-> FALSE,
          log |-> << Line("I: Cleaned up build dependency packages", <<>>, "") >>]
    ELSE [files |-> files \ done, removed |-> done, raised |-> FALSE,
          log |-> << Line("Error cleaning up build dependencies", <<>>, "OSError") >>]

\* copy_packages(repo_dir): done are the files shutil.copy got to before it
\* raised (all of them when it did not raise)
copy_packages(files, done) ==
    IF done = files
    THEN [copied |-> files, raised |-> FALSE, log |-> <<>>]
    ELSE [copied |-> done, raised |-> FALSE,
          log |-> << Line("Error copying packages", <<>>, "OSError") >>]

(* ------------------------- the inputs of a run -------------------------- *)
\* three job tables: only the required keys; every optional key; patches
\* switched off and prepare_package without install_data
JobA ==
    [name |-> <<"f","o","o">>, commit_id |-> <<"f","e","a","t","u","r","e","/","x">>,
     scm_url |-> "https://example.org/one.git"]
JobB ==
    [name |-> <<"x","/","y">>, commit_id |-> <<"a","/","b","/","c">>,
     scm_url |-> "https://example.org/one.git",
     pre_build_hook |-> HookCmd, apply_patches |-> TRUE, prepare_package |-> TRUE,
     install_data |-> InstallData, build_cmd |-> CustomBuild]
JobC ==
    [name |-> <<"f","o","o">>, commit_id |-> <<"a","/","b","/","c">>,
     scm_url |-> "https://example.org/other.git",
     apply_patches |-> FALSE, prepare_package |-> TRUE]
JobTables == {JobA, JobB, JobC} \cap Packages

\* the job lists of at most n tables
JobLists(n) == UNION { [1..k -> JobTables] : k \in 0..n }

\* a missing or malformed configuration file
Malformed == [ok |-> FALSE, dependencies |-> <<>>, packages |-> <<>>]

\* the configuration documents of the one-run specification
Documents ==
    {Malformed}
    \cup { [ok |-> TRUE, dependencies |-> d, packages |-> p] :
              d \in DependencyLists, p \in JobLists(MaxJobs) }

\* the configuration documents of the several-runs specification: one job
RunsDocuments ==
    { [ok |-> TRUE, dependencies |-> <<>>, packages |-> p] : p \in JobLists(1) \ {<<>>} }

\* two jobs of the same name and different scm_url
SameNameDocument == [ok |-> TRUE, dependencies |-> <<>>, packages |-> <<JobA, JobC>>]

\* every job has the same patch directory d
SamePatchDir(d) == [n \in Names |-> d]
TwoPatches == [kind |-> "dir", entries |-> { <<"b",".","p">>, <<"a",".","p">> }]

\* lines 208 and 212: what the script takes from the loaded document
packages == document.packages
global_dependencies == document.dependencies

\* the script is started for the first time, with a configuration document
\* of docs, patch directories of dirs and source repositories of repos
InitWith(docs, dirs, repos) ==
    /\ pc = "start"
    /\ run = 1
    /\ document \in docs
    /\ i = 0
    /\ failed = {}
    /\ exitCode = 0
    /\ abortedBy = ""
    /\ aptCmds = <<>>
    /\ job = NoJob
    /\ workdirs = {}
    /\ origin = [n \in Names |-> ""]
    /\ upstream \in repos
    /\ patchDir \in dirs
    /\ series = [n \in Names |-> NoFile]
    /\ debianPatches = [n \in Names |-> NoDir]
    /\ debs = [n \in Names |-> {}]

\* the process ends: sys.exit status `code`; by names the uncaught exception
Exit(code, by) ==
    /\ pc' = "exited"
    /\ exitCode' = code
    /\ abortedBy' = by

\* the job goes on with statement `next`
Goto(j, next) ==
    /\ job' = j
    /\ pc' = next
    /\ UNCHANGED ctl

\* variant of except_CalledProcessError: the handler logs and raises again
except_reraise(j, e) ==
    [ job    |-> Step(Logged(j, << Line("Failed to build package", j.package.name, e) >>),
                      "DONE"),
      caught |-> FALSE ]

\* lines 163-168: the handler of the try of build_package and its finally
except_CalledProcessError(j, e) ==
    [ job    |-> Step(Logged(j, << Line("Failed to build package", j.package.name, e) >>),
                      "DONE"),
      caught |-> TRUE ]

\* a command of the try block of build_package exited non-zero
Raise(j, e) ==
    LET h == except_CalledProcessError(j, e) IN
    /\ job' = h.job
    /\ IF h.caught
       THEN /\ pc' = "cleanup"
            /\ failed' = failed \cup {i}
            /\ UNCHANGED <<exitCode, abortedBy>>
       ELSE /\ Exit(1, "build_package")
            /\ UNCHANGED failed
    /\ UNCHANGED <<run, document, i, aptCmds>>

\* variant of LoadConfig: a document without dependencies is taken as malformed
LoadConfigStrict ==
    /\ pc = "start"
    /\ IF document.ok /\ document.dependencies # <<>>
       THEN /\ pc' = "deps"
            /\ UNCHANGED <<exitCode, abortedBy>>
       ELSE Exit(1, "config")
    /\ UNCHANGED <<run, document, i, failed, aptCmds, job>>
    /\ UNCHANGED fs

\* lines 204-209: open(args.config), toml.load, config['packages']
LoadConfig ==
    /\ pc = "start"
    /\ IF document.ok
       THEN /\ pc' = "deps"
            /\ UNCHANGED <<exitCode, abortedBy>>
       ELSE Exit(1, "config")
    /\ UNCHANGED <<run, document, i, failed, aptCmds, job>>
    /\ UNCHANGED fs

\* lines 211-214
EnsureDependencies ==
    /\ pc = "deps"
    /\ \E updateOk, installOk \in BOOLEAN :
         LET r == ensure_dependencies(global_dependencies, updateOk, installOk) IN
         /\ aptCmds' = r.cmds
         /\ IF r.raised
            THEN Exit(1, "ensure_dependencies")
            ELSE /\ pc' = "loop"
                 /\ UNCHANGED <<exitCode, abortedBy>>
    /\ UNCHANGED <<run, document, i, failed, job>>
    /\ UNCHANGED fs

\* line 216, another job: for package in packages
NextPackage ==
    /\ pc = "loop"
    /\ i < Len(packages)
    /\ job' = NewJob(packages[i + 1])
    /\ i' = i + 1
    /\ pc' = "CLONE"
    /\ UNCHANGED <<run, document, failed, exitCode, abortedBy, aptCmds>>
    /\ UNCHANGED fs

\* variant of EndStatus: sys.exit(1) at the end when a job failed
EndStatusOfFailures(failedJobs) == IF failedJobs = {} THEN 0 ELSE 1

\* the status of a script that reaches its last line: nothing calls sys.exit
\* and the failures of the jobs are not kept
EndStatus(failedJobs) == 0

\* line 216, the list is exhausted: the script ends
EndOfJobs ==
    /\ pc = "loop"
    /\ i = Len(packages)
    /\ Exit(EndStatus(failed), "")
    /\ UNCHANGED <<run, document, i, failed, aptCmds, job>>
    /\ UNCHANGED fs

(* ----------------------------- build_package ---------------------------- *)
\* variant of Clone: the repository is cloned whether or not the working
\* directory exists
CloneAlways ==
    /\ pc = "CLONE"
    /\ LET name == job.package.name IN
       IF TRUE
       THEN \E ok \in BOOLEAN :
              IF ok
              THEN /\ workdirs' = workdirs \cup {name}
                   /\ origin' = [origin EXCEPT ![name] = job.package.scm_url]
                   /\ series' = [series EXCEPT ![name] = upstream[name].series]
                   /\ debianPatches' = [debianPatches EXCEPT ![name] = upstream[name].patches]
                   /\ Goto(Ran(Step(job, "CLONE"), GitClone, TRUE), "CHECKOUT")
                   /\ UNCHANGED <<upstream, patchDir, debs>>
              ELSE /\ Raise(Ran(Step(job, "CLONE"), GitClone, FALSE), GitClone)
                   /\ UNCHANGED fs
       ELSE /\ Goto(job, "CHECKOUT")
            /\ UNCHANGED fs

\* lines 88-90: clone unless the working directory exists
Clone ==
    /\ pc = "CLONE"
    /\ LET name == job.package.name IN
       IF name \notin workdirs
       THEN \E ok \in BOOLEAN :
              IF ok
              THEN /\ workdirs' = workdirs \cup {name}
                   /\ origin' = [origin EXCEPT ![name] = job.package.scm_url]
                   /\ series' = [series EXCEPT ![name] = upstream[name].series]
                   /\ debianPatches' = [debianPatches EXCEPT ![name] = upstream[name].patches]
                   /\ Goto(Ran(Step(job, "CLONE"), GitClone, TRUE), "CHECKOUT")
                   /\ UNCHANGED <<upstream, patchDir, debs>>
              ELSE /\ Raise(Ran(Step(job, "CLONE"), GitClone, FALSE), GitClone)
                   /\ UNCHANGED fs
       ELSE /\ Goto(job, "CHECKOUT")
            /\ UNCHANGED fs

\* line 93: git checkout commit_id
Checkout ==
    /\ pc = "CHECKOUT"
    /\ \E ok \in BOOLEAN :
         IF ok
         THEN Goto(Ran(Step(job, "CHECKOUT"), GitCheckout, TRUE), "PRE_BUILD_HOOK")
         ELSE Raise(Ran(Step(job, "CHECKOUT"), GitCheckout, FALSE), GitCheckout)
    /\ UNCHANGED fs

\* lines 113-121
PreBuildHook ==
    /\ pc = "PRE_BUILD_HOOK"
    /\ LET pre_build_hook == Get(job.package, "pre_build_hook", "")
           executing == Line("I: execute pre_build_hook for the package", job.package.name, "")
       IN
       IF pre_build_hook # ""
       THEN \E ok \in BOOLEAN :
              IF ok
              THEN Goto(Ran(Logged(Step(job, "PRE_BUILD_HOOK"), << executing >>),
                            pre_build_hook, TRUE),
                        "PATCH")
              ELSE Raise(Logged(Ran(Step(job, "PRE_BUILD_HOOK"), pre_build_hook, FALSE),
                                << executing,
                                   Line(NonZeroExit, <<>>, pre_build_hook),
                                   Line("I: pre_build_hook failed", job.package.name, "") >>),
                         pre_build_hook)
       ELSE Goto(job, "PATCH")
    /\ UNCHANGED fs

\* bool(repo_dir / 'patches') of line 132: a Path object is truthy whether or
\* not the path exists
PathBool(exists) == TRUE

\* variant of WantsPatches: the apply_patches key is not looked at
WantsPatchesAlways(package) == TRUE

\* line 130: whether the job has patches applied
WantsPatches(package) == Get(package, "apply_patches", TRUE)

\* lines 130-133; subdir is whether <name>/patches exists in the checkout
Patch ==
    /\ pc = "PATCH"
    /\ \E subdir \in BOOLEAN :
         LET name == job.package.name
             seen == [job EXCEPT !.subdir = subdir]
         IN
         IF WantsPatches(job.package) /\ PathBool(subdir)
         THEN LET r == apply_patches([series |-> series[name],
                                      patches |-> debianPatches[name]],
                                     patchDir[name])
              IN  /\ series' = [series EXCEPT ![name] = r.series]
                  /\ debianPatches' = [debianPatches EXCEPT ![name] = r.patches]
                  /\ Goto(Logged([Step(seen, "PATCH") EXCEPT !.copies = r.copies], r.log),
                          "ARCHIVE")
         ELSE /\ Goto(seen, "ARCHIVE")
              /\ UNCHANGED tree
    /\ UNCHANGED <<workdirs, origin, upstream, patchDir, debs>>

\* lines 136-139
Archive ==
    /\ pc = "ARCHIVE"
    /\ LET tarball_name == TarballName(job.package) IN
       \E ok \in BOOLEAN :
         IF ok
         THEN Goto(Logged([Ran(Step(job, "ARCHIVE"), TarCzf, TRUE)
                              EXCEPT !.tarball = tarball_name],
                          << Line("I: Tarball created", tarball_name, "") >>),
                   "PREPARE")
         ELSE Raise(Ran(Step(job, "ARCHIVE"), TarCzf, FALSE), TarCzf)
    /\ UNCHANGED fs

\* lines 142-143; the exception of prepare_package is no CalledProcessError:
\* it passes the handler of line 163, runs the finally and ends the script
Prepare ==
    /\ pc = "PREPARE"
    /\ IF Get(job.package, "prepare_package", FALSE)
       THEN \E oserror \in BOOLEAN :
              LET r == prepare_package(job.install,
                                       Get(job.package, "install_data", ""), oserror)
                  j == Logged([Step(job, "PREPARE") EXCEPT !.install = r.install], r.log)
              IN  IF r.raised
                  THEN /\ job' = Step(j, "DONE")
                       /\ Exit(1, "prepare_package")
                       /\ UNCHANGED <<run, document, i, failed, aptCmds>>
                  ELSE Goto(j, "INSTALL_BUILD_DEPS")
       ELSE Goto(job, "INSTALL_BUILD_DEPS")
    /\ UNCHANGED fs

\* variant of InstallBuildDeps: a failed command is the job's failure
InstallBuildDepsFatal ==
    /\ pc = "INSTALL_BUILD_DEPS"
    /\ LET name == job.package.name IN
       \E control \in BOOLEAN :
         IF control
         THEN \E mkOk, dpkgOk \in BOOLEAN :
                LET seen == [job EXCEPT !.control = control]
                    j1 == Ran(Step(seen, "INSTALL_BUILD_DEPS"), MkBuildDeps, mkOk)
                    j2 == IF mkOk THEN Ran(j1, DpkgBuildDeps, dpkgOk) ELSE j1
                    e  == IF mkOk THEN DpkgBuildDeps ELSE MkBuildDeps
                IN  /\ debs' = IF mkOk
                               THEN [debs EXCEPT ![name] = @ \cup {BuildDepsDeb}]
                               ELSE debs
                    /\ IF mkOk /\ dpkgOk
                       THEN Goto(j2, "BUILD")
                       ELSE Raise(j2, e)
         ELSE /\ Goto(job, "BUILD")
              /\ UNCHANGED debs
    /\ UNCHANGED <<workdirs, origin, upstream, patchDir, series, debianPatches>>

\* lines 146-151; control is whether <name>/debian/control exists
InstallBuildDeps ==
    /\ pc = "INSTALL_BUILD_DEPS"
    /\ LET name == job.package.name IN
       \E control \in BOOLEAN :
         IF control
         THEN \E mkOk, dpkgOk \in BOOLEAN :
                LET seen == [job EXCEPT !.control = control]
                    j1 == Ran(Step(seen, "INSTALL_BUILD_DEPS"), MkBuildDeps, mkOk)
                    j2 == IF mkOk THEN Ran(j1, DpkgBuildDeps, dpkgOk) ELSE j1
                    e  == IF mkOk THEN DpkgBuildDeps ELSE MkBuildDeps
                IN  /\ debs' = IF mkOk
                               THEN [debs EXCEPT ![name] = @ \cup {BuildDepsDeb}]
                               ELSE debs
                    /\ IF mkOk /\ dpkgOk
                       THEN Goto(j2, "BUILD")
                       ELSE Goto(Logged(j2, << Line("Failed to build package", name, e) >>),
                                 "BUILD")
         ELSE /\ Goto(job, "BUILD")
              /\ UNCHANGED debs
    /\ UNCHANGED <<workdirs, origin, upstream, patchDir, series, debianPatches>>

\* build_package returns without an exception: the finally of lines 165-168
Return(j) == Goto(Step(j, "DONE"), "cleanup")

\* variant of Build: a failed primary build is the job's failure, with no
\* second attempt
BuildNoFallback ==
    /\ pc = "BUILD"
    /\ LET name == job.package.name
           build_cmd == Get(job.package, "build_cmd", DefaultBuildCmd)
       IN
       \E ok \in BOOLEAN :
         IF ok
         THEN /\ Return(Ran(Step(job, "BUILD"), build_cmd, TRUE))
              /\ debs' = [debs EXCEPT ![name] = @ \cup {PackageDeb}]
         ELSE /\ Raise(Ran(Step(job, "BUILD"), build_cmd, FALSE), build_cmd)
              /\ UNCHANGED debs
    /\ UNCHANGED <<workdirs, origin, upstream, patchDir, series, debianPatches>>

\* lines 154-159: the primary build command
Build ==
    /\ pc = "BUILD"
    /\ LET name == job.package.name
           build_cmd == Get(job.package, "build_cmd", DefaultBuildCmd)
       IN
       \E ok \in BOOLEAN :
         IF ok
         THEN /\ Return(Ran(Step(job, "BUILD"), build_cmd, TRUE))
              /\ debs' = [debs EXCEPT ![name] = @ \cup {PackageDeb}]
         ELSE /\ Goto(Logged(Ran(Step(job, "BUILD"), build_cmd, FALSE),
                             << Line(NonZeroExit, <<>>, build_cmd),
                                Line("I: Source packages build failed, ignoring - building binaries only",
                                     <<>>, "") >>),
                      "FALLBACK_BUILD")
              /\ UNCHANGED debs
    /\ UNCHANGED <<workdirs, origin, upstream, patchDir, series, debianPatches>>

\* variant of FallbackBuild: the retry is the binary-only default, whatever
\* build_cmd says
FallbackBuildBinaryOnly ==
    /\ pc = "FALLBACK_BUILD"
    /\ LET name == job.package.name
           build_cmd == FallbackBuildCmd
       IN
       \E ok \in BOOLEAN :
         IF ok
         THEN /\ Return(Ran(Step(job, "FALLBACK_BUILD"), build_cmd, TRUE))
              /\ debs' = [debs EXCEPT ![name] = @ \cup {PackageDeb}]
         ELSE /\ Raise(Ran(Step(job, "FALLBACK_BUILD"), build_cmd, FALSE), build_cmd)
              /\ UNCHANGED debs
    /\ UNCHANGED <<workdirs, origin, upstream, patchDir, series, debianPatches>>

\* variant of FallbackBuild: a failed fallback goes back to the primary command
FallbackBuildRetry ==
    /\ pc = "FALLBACK_BUILD"
    /\ LET name == job.package.name
           build_cmd == Get(job.package, "build_cmd", FallbackBuildCmd)
       IN
       \E ok \in BOOLEAN :
         IF ok
         THEN /\ Return(Ran(Step(job, "FALLBACK_BUILD"), build_cmd, TRUE))
              /\ debs' = [debs EXCEPT ![name] = @ \cup {PackageDeb}]
         ELSE /\ Goto(Ran(Step(job, "FALLBACK_BUILD"), build_cmd, FALSE), "BUILD")
              /\ UNCHANGED debs
    /\ UNCHANGED <<workdirs, origin, upstream, patchDir, series, debianPatches>>

\* lines 160-161: the build command of the handler of line 157
FallbackBuild ==
    /\ pc = "FALLBACK_BUILD"
    /\ LET name == job.package.name
           build_cmd == Get(job.package, "build_cmd", FallbackBuildCmd)
       IN
       \E ok \in BOOLEAN :
         IF ok
         THEN /\ Return(Ran(Step(job, "FALLBACK_BUILD"), build_cmd, TRUE))
              /\ debs' = [debs EXCEPT ![name] = @ \cup {PackageDeb}]
         ELSE /\ Raise(Ran(Step(job, "FALLBACK_BUILD"), build_cmd, FALSE), build_cmd)
              /\ UNCHANGED debs
    /\ UNCHANGED <<workdirs, origin, upstream, patchDir, series, debianPatches>>

(* ---------------------------- after the build --------------------------- *)
\* line 221
CleanupBuildDeps ==
    /\ pc = "cleanup"
    /\ LET name == job.package.name IN
       \E done \in SUBSET (debs[name] \cap {BuildDepsDeb}) :
         LET r == cleanup_build_deps(name \in workdirs, debs[name], done)
             j == Logged([job EXCEPT !.removed = r.removed], r.log)
         IN
         /\ debs' = [debs EXCEPT ![name] = r.files]
         /\ IF r.raised
            THEN /\ job' = j
                 /\ Exit(1, "cleanup_build_deps")
                 /\ UNCHANGED <<run, document, i, failed, aptCmds>>
            ELSE Goto(j, "copy")
    /\ UNCHANGED <<workdirs, origin, upstream, patchDir, series, debianPatches>>

\* variant of CopyPackages: nothing is copied for a job that failed
CopyPackagesIfBuilt ==
    /\ pc = "copy"
    /\ LET name == job.package.name IN
       \E done \in SUBSET debs[name] :
         LET r == copy_packages(IF i \in failed THEN {} ELSE debs[name],
                                IF i \in failed THEN {} ELSE done)
             j == Logged([job EXCEPT !.copied = r.copied], r.log)
         IN
         IF r.raised
         THEN /\ job' = j
              /\ Exit(1, "copy_packages")
              /\ UNCHANGED <<run, document, i, failed, aptCmds>>
         ELSE Goto(j, "loop")
    /\ UNCHANGED fs

\* line 224
CopyPackages ==
    /\ pc = "copy"
    /\ LET name == job.package.name IN
       \E done \in SUBSET debs[name] :
         LET r == copy_packages(debs[name], done)
             j == Logged([job EXCEPT !.copied = r.copied], r.log)
         IN
         IF r.raised
         THEN /\ job' = j
              /\ Exit(1, "copy_packages")
              /\ UNCHANGED <<run, document, i, failed, aptCmds>>
         ELSE Goto(j, "loop")
    /\ UNCHANGED fs

\* the script is started again, on the filesystem the earlier runs left
NewRun ==
    /\ pc = "exited"
    /\ run < MaxRuns
    /\ run' = run + 1
    /\ pc' = "start"
    /\ UNCHANGED document
    /\ i' = 0
    /\ failed' = {}
    /\ exitCode' = 0
    /\ abortedBy' = ""
    /\ aptCmds' = <<>>
    /\ job' = NoJob
    /\ UNCHANGED fs

Next ==
    \/ LoadConfig
    \/ EnsureDependencies
    \/ NextPackage
    \/ EndOfJobs
    \/ Clone
    \/ Checkout
    \/ PreBuildHook
    \/ Patch
    \/ Archive
    \/ Prepare
    \/ InstallBuildDeps
    \/ Build
    \/ FallbackBuild
    \/ CleanupBuildDeps
    \/ CopyPackages

\* one run of the script on a fresh filesystem
Init ==
    InitWith(Documents,
             { SamePatchDir([kind |-> "absent", entries |-> {}]), SamePatchDir(TwoPatches) },
             { [n \in Names |-> NoPatches] })

Spec == Init /\ [][Next]_vars

\* several runs of the script on one filesystem: one job over every patch
\* directory and every source repository, or the two jobs of one name
InitRuns ==
    \/ InitWith(RunsDocuments,
                { SamePatchDir(d) : d \in PatchDirs },
                { [n \in Names |-> u] : u \in UpstreamTrees })
    \/ InitWith({SameNameDocument},
                { SamePatchDir(TwoPatches) },
                { [n \in Names |-> NoPatches] })

NextRuns == Next \/ NewRun

SpecRuns == InitRuns /\ [][NextRuns]_vars

(* ======================================================================= *)
(*                               the claims                                *)
(* ======================================================================= *)
Last(q) == q[Len(q)]
Steps == Range(job.trace)
Printed(msg) == \E k \in 1..Len(job.log) : job.log[k].msg = msg
JobFatalLine == "Failed to build package"
\* a job is at hand: the script is inside build_package or the collector
InJob == pc \notin {"start", "deps", "loop", "exited"}
InBuildPackage == InJob /\ pc \notin {"cleanup", "copy"}
\* this step ran a command of build_package and the command exited non-zero
CommandFails ==
    /\ Len(job'.cmds) = Len(job.cmds) + 1
    /\ ~Last(job'.cmds).ok

(* ------------------------------------------------------------------------ *)
\* C1: per-job isolation.  Whenever a command of a job exits non-zero at
\* CLONE, CHECKOUT, the pre-build hook, archive creation or the fallback build
\* (the primary build having failed before it), the failure is logged as the
\* job's and the script goes on with the collector of that job; from the
\* collector it always returns to the loop, and the loop always starts the
\* next job while one is left.  So a script that ended without an uncaught
\* exception has been through every job of the list.
C1_FailureGoesOn ==
    (CommandFails /\ pc \in {"CLONE", "CHECKOUT", "PRE_BUILD_HOOK", "ARCHIVE", "FALLBACK_BUILD"})
        => /\ pc' = "cleanup"
           /\ i' = i
           /\ failed' = failed \cup {i}
           /\ Last(job'.log).msg = JobFatalLine
           /\ Last(job'.log).name = job.package.name
C1_LoopGoesOn ==
    /\ pc = "cleanup" => pc' = "copy" /\ i' = i
    /\ pc = "copy" => pc' = "loop" /\ i' = i
    /\ (pc = "loop" /\ i < Len(packages))
          => pc' = "CLONE" /\ i' = i + 1 /\ job'.package = packages[i + 1]
\* C1: every step keeps the loop going after a failed command, and a script that
\* ended with failed jobs either went through the whole list or was ended by
\* the Package Preparer's exception, never by a failed command of a job
C1_Isolation ==
    /\ [][C1_FailureGoesOn /\ C1_LoopGoesOn]_vars
    /\ [](pc = "exited" /\ failed # {}
             => abortedBy = "prepare_package" \/ (abortedBy = "" /\ i = Len(packages)))

\* job 1 of 2 failed, job 2 went through every step of its own and the script
\* ended at the end of the list
C1_Witness ==
    /\ pc = "exited"
    /\ Len(packages) = 2
    /\ failed = {1}
    /\ i = 2
    /\ job.package = packages[2]
    /\ {"CHECKOUT", "ARCHIVE", "BUILD", "DONE"} \subseteq Steps

(* ------------------------------------------------------------------------ *)
\* the primary build command of the job at hand failed and its fallback
\* succeeded
FallbackSucceeded ==
    /\ InJob
    /\ "FALLBACK_BUILD" \in Steps
    /\ Last(job.cmds).ok
    /\ pc \in {"cleanup", "copy"}

\* C2: if the primary build command fails and the fallback succeeds, the line
\* "Failed to build package <name>" is never printed for the job and the outer
\* handler is not entered.
C2_NoFatalLine ==
    FallbackSucceeded => i \notin failed /\ ~Printed(JobFatalLine)

(* ------------------------------------------------------------------------ *)
AptFailed == \E k \in 1..Len(aptCmds) : ~aptCmds[k].ok

\* C3: with a non-empty dependency list, a non-zero exit of the index refresh
\* or of the batch install ends the script before any job: no step of any job
\* is executed.  The install is attempted only after the refresh succeeded,
\* and nothing is installed for an empty list.
C3_DependenciesFatal ==
    /\ AptFailed => /\ pc = "exited"
                    /\ exitCode # 0
                    /\ i = 0
                    /\ job = NoJob
                    /\ workdirs = {}
    /\ \A k \in 1..Len(aptCmds) :
          aptCmds[k].cmd = AptInstall
             => k = 2 /\ aptCmds[1].cmd = AptUpdate /\ aptCmds[1].ok
    /\ aptCmds # <<>> => document.dependencies # <<>> /\ aptCmds[1].cmd = AptUpdate
    /\ (InJob /\ document.dependencies # <<>>)
          => Len(aptCmds) = 2 /\ aptCmds[2].cmd = AptInstall /\ aptCmds[2].ok

\* the refresh succeeded, the install failed, the script is over
C3_Witness ==
    /\ pc = "exited"
    /\ Len(aptCmds) = 2
    /\ aptCmds[1].ok
    /\ ~aptCmds[2].ok
    /\ Len(packages) > 0

(* ------------------------------------------------------------------------ *)
\* the job table at hand sets apply_patches = false
PatchesOff ==
    /\ "apply_patches" \in DOMAIN job.package
    /\ job.package.apply_patches = FALSE
ApplierLines ==
    { "I: Patch directory does not exist, skipping patch application",
      "I: No patches found", "I: Applied patch" }

\* C4: for a job with apply_patches = false the Patch Applier is never invoked:
\* no PATCH step, no copy, no line of the applier, and from CHECKOUT on no step
\* of the job changes any series manifest or debian/patches directory, whether
\* or not a patch directory of the job exists.
C4_PatchesOffState ==
    (InJob /\ PatchesOff)
        => /\ "PATCH" \notin Steps
           /\ job.copies = <<>>
           /\ \A k \in 1..Len(job.log) : job.log[k].msg \notin ApplierLines
C4_PatchesOffStep ==
    (InJob /\ PatchesOff /\ pc # "CLONE")
        => series' = series /\ debianPatches' = debianPatches
\* C4: both hold throughout: no applier for a job with apply_patches = false,
\* and no step of such a job touches the manifests or debian/patches
C4_NoPatching == []C4_PatchesOffState /\ [][C4_PatchesOffStep]_vars

\* a job with apply_patches = false is past the PATCH statement, its patch
\* directory holds patches and its checkout a manifest that an earlier job wrote
C4_Witness ==
    /\ pc = "cleanup"
    /\ PatchesOff
    /\ "ARCHIVE" \in Steps
    /\ patchDir[job.package.name].entries # {}
    /\ series[job.package.name].exists

(* ------------------------------------------------------------------------ *)
\* the lines of a text: the pieces between the newlines
RECURSIVE Lines(_)
Lines(text) ==
    IF text = <<>> THEN <<>>
    ELSE LET k == CHOOSE x \in 1..(Len(text) + 1) :
                     /\ x = Len(text) + 1 \/ text[x] = "\n"
                     /\ \A m \in 1..(x - 1) : text[m] # "\n"
         IN  << SubSeq(text, 1, k - 1) >>
             \o (IF k >= Len(text) THEN <<>> ELSE Lines(SubSeq(text, k + 1, Len(text))))

\* s comes before t in lexicographic order of the characters' code points
LexBefore(s, t) ==
    \E k \in 1..Len(t) :
       /\ \A m \in 1..(k - 1) : m <= Len(s) /\ s[m] = t[m]
       /\ \/ k = Len(s) + 1
          \/ k <= Len(s) /\ Ord(s[k]) < Ord(t[k])

\* the members of S, each once, in lexicographic order
InOrder(S) ==
    CHOOSE q \in [1..Cardinality(S) -> S] :
       \A a, b \in 1..Cardinality(S) : a < b => LexBefore(q[a], q[b])

\* this step invokes the Patch Applier for the job at hand
PatchStep == pc = "PATCH" /\ Len(job'.trace) = Len(job.trace) + 1
HasPatches(n) == patchDir[n].kind = "dir" /\ patchDir[n].entries # {}

\* C5: one run of the Patch Applier with a non-empty set of patch files, on a
\* checkout whose series manifest is absent or empty, leaves a manifest that
\* lists exactly those file names, each once, one per line, in lexicographic
\* order; the files are copied into debian/patches in that order.
C5_Step ==
    LET n == job.package.name
        ls == Lines(series'[n].text)
    IN  (PatchStep /\ HasPatches(n) /\ series[n].text = <<>>)
           => /\ series'[n].exists
              /\ Last(series'[n].text) = "\n"
              /\ Len(ls) = Cardinality(patchDir[n].entries)
              /\ Range(ls) = patchDir[n].entries
              /\ \A a, b \in 1..Len(ls) : a < b => LexBefore(ls[a], ls[b])
              /\ job'.copies = ls
              /\ debianPatches'[n].exists
              /\ patchDir[n].entries \subseteq debianPatches'[n].files
\* C5: every run of the applier on an empty or absent manifest writes the sorted
\* list of the patch file names, one per line, and copies in that order
C5_SeriesSorted == [][C5_Step]_vars

\* b.p and a.p were applied to a fresh clone without a manifest
C5_Witness ==
    /\ pc = "ARCHIVE"
    /\ {"CLONE", "PATCH"} \subseteq Steps
    /\ ~upstream[job.package.name].series.exists
    /\ patchDir[job.package.name].entries = { <<"b",".","p">>, <<"a",".","p">> }
    /\ job.copies = << <<"a",".","p">>, <<"b",".","p">> >>
    /\ series[job.package.name].text = <<"a",".","p","\n","b",".","p","\n">>

(* ------------------------------------------------------------------------ *)
\* C6: with the per-job patch directory absent, not a directory or empty, the
\* Patch Applier changes nothing: no debian/patches directory and no series
\* manifest is created, nothing is copied, an existing manifest stays as it
\* is; it prints an informational line, raises nothing and the job goes on
\* with ARCHIVE.
C6_Step ==
    LET n == job.package.name IN
    (PatchStep /\ ~HasPatches(n))
       => /\ series' = series
          /\ debianPatches' = debianPatches
          /\ job'.copies = <<>>
          /\ Last(job'.log).msg \in
                { "I: Patch directory does not exist, skipping patch application",
                  "I: No patches found" }
          /\ pc' = "ARCHIVE"
          /\ failed' = failed
\* C6: every run of the applier without patches to apply is a no-op that goes on
\* with ARCHIVE
C6_NoPatchesNoOp == [][C6_Step]_vars

\* the applier ran on an empty patch directory and the checkout has neither a
\* debian/patches directory nor a manifest
C6_Witness ==
    /\ pc = "ARCHIVE"
    /\ "PATCH" \in Steps
    /\ patchDir[job.package.name].kind = "dir"
    /\ patchDir[job.package.name].entries = {}
    /\ ~series[job.package.name].exists
    /\ ~debianPatches[job.package.name].exists

(* ------------------------------------------------------------------------ *)
IsPrefix(s, t) == Len(s) <= Len(t) /\ SubSeq(t, 1, Len(s)) = s
RECURSIVE Repeat(_, _)
Repeat(q, k) == IF k = 0 THEN <<>> ELSE q \o Repeat(q, k - 1)

\* C7: the Patch Applier only appends.  No step removes or reorders what a
\* manifest holds (the old text stays a prefix); one run of the applier over n
\* patch files adds exactly n lines, the sorted list; so k runs against one
\* checkout whose manifest started empty leave k * n lines, the sorted list k
\* times over.
C7_Step ==
    LET n == job.package.name IN
    /\ \A m \in Names : IsPrefix(series[m].text, series'[m].text)
    /\ (PatchStep /\ HasPatches(n))
          => Lines(series'[n].text)
                = Lines(series[n].text) \o InOrder(patchDir[n].entries)
    /\ (~PatchStep /\ pc # "CLONE") => series' = series
C7_Repeated ==
    \A m \in Names :
       (HasPatches(m) /\ upstream[m].series.text = <<>>)
           => \E k \in 0..(run * Len(packages)) :
                 /\ Lines(series[m].text) = Repeat(InOrder(patchDir[m].entries), k)
                 /\ Len(Lines(series[m].text)) = k * Cardinality(patchDir[m].entries)
\* C7: every step only appends to the manifests, and a manifest that started
\* empty is the sorted list k times over, k * n lines
C7_AppendOnly == [][C7_Step]_vars /\ []C7_Repeated

\* the second run applied the same two patches again: four lines
C7_Witness ==
    /\ run = 2
    /\ pc = "ARCHIVE"
    /\ "PATCH" \in Steps
    /\ Cardinality(patchDir[job.package.name].entries) = 2
    /\ Lines(series[job.package.name].text)
          = Repeat(InOrder(patchDir[job.package.name].entries), 2)

(* ------------------------------------------------------------------------ *)
\* C8: the tarball of a job is <name>_<commit>.tar.gz, <commit> being the
\* commit reference with every '/' replaced by '_' and nothing else changed;
\* the name is not sanitized.  foo at feature/x gives foo_feature_x.tar.gz.
\* The tarball exists once ARCHIVE succeeded, and not before.
C8_TarballName ==
    LET n == job.package.name
        c == job.package.commit_id
        t == job.tarball
    IN  /\ t # <<>>
           => /\ "ARCHIVE" \in Steps
              /\ Len(t) = Len(n) + 1 + Len(c) + 7
              /\ SubSeq(t, 1, Len(n)) = n
              /\ t[Len(n) + 1] = "_"
              /\ \A k \in 1..Len(c) :
                    t[Len(n) + 1 + k] = (IF c[k] = "/" THEN "_" ELSE c[k])
              /\ SubSeq(t, Len(t) - 6, Len(t)) = <<".","t","a","r",".","g","z">>
        /\ (t # <<>> /\ n = <<"f","o","o">> /\ c = <<"f","e","a","t","u","r","e","/","x">>)
           => t = <<"f","o","o","_","f","e","a","t","u","r","e","_","x",
                    ".","t","a","r",".","g","z">>
        /\ pc \in {"PREPARE", "INSTALL_BUILD_DEPS", "BUILD", "FALLBACK_BUILD"} => t # <<>>
        /\ pc \in {"CLONE", "CHECKOUT", "PRE_BUILD_HOOK", "PATCH", "ARCHIVE"} => t = <<>>

\* job x/y at commit a/b/c: both slashes of the commit replaced, the one of
\* the name kept
C8_Witness ==
    /\ job.package.name = <<"x","/","y">>
    /\ job.package.commit_id = <<"a","/","b","/","c">>
    /\ job.tarball = <<"x","/","y","_","a","_","b","_","c",".","t","a","r",".","g","z">>

(* ------------------------------------------------------------------------ *)
\* C9: a script that reaches the end of the job list exits with status 0,
\* however many jobs failed job-fatally; the status is non-zero only when an
\* uncaught exception (of the configuration loader, the dependency installer
\* or the Package Preparer) ended the script before the end of the job list.
C9_ExitCode ==
    pc = "exited"
       => /\ exitCode \in {0, 1}
          /\ abortedBy = "" => exitCode = 0 /\ i = Len(packages)
          /\ exitCode # 0
                => /\ abortedBy \in {"config", "ensure_dependencies", "prepare_package"}
                   /\ "BUILD" \notin Steps
                   /\ job.copied = {}
                   /\ abortedBy = "config" <=> ~document.ok
                   /\ abortedBy = "ensure_dependencies" => AptFailed
                   /\ abortedBy = "prepare_package" => Printed("Failed to prepare package")

\* both jobs of the list failed job-fatally and the script exited with 0
C9_Witness ==
    /\ pc = "exited"
    /\ exitCode = 0
    /\ Len(packages) = 2
    /\ failed = {1, 2}

(* ------------------------------------------------------------------------ *)
Rank(step) ==
    CASE step = "CLONE"              -> 1
      [] step = "CHECKOUT"           -> 2
      [] step = "PRE_BUILD_HOOK"     -> 3
      [] step = "PATCH"              -> 4
      [] step = "ARCHIVE"            -> 5
      [] step = "PREPARE"            -> 6
      [] step = "INSTALL_BUILD_DEPS" -> 7
      [] step = "BUILD"              -> 8
      [] step = "FALLBACK_BUILD"     -> 9
      [] step = "DONE"               -> 10

\* C10: the steps executed for one job are in the order CLONE, CHECKOUT,
\* PRE_BUILD_HOOK, PATCH, ARCHIVE, PREPARE, INSTALL_BUILD_DEPS, BUILD, fallback
\* BUILD, DONE: steps may be missing, none runs before one that precedes it,
\* none runs twice (BUILD runs again only as the fallback).  The tarball does
\* not exist when the patches are applied and exists when the install
\* manifest is written.
C10_StepOrder ==
    /\ \A a, b \in 1..Len(job.trace) :
          a < b => Rank(job.trace[a]) < Rank(job.trace[b])
    /\ InBuildPackage => \A a \in 1..Len(job.trace) : Rank(job.trace[a]) < Rank(pc)
    /\ pc = "PATCH" => job.tarball = <<>>
    /\ job.install.exists => job.tarball # <<>> /\ "ARCHIVE" \in Steps
    /\ job.copies # <<>> => "PATCH" \in Steps

\* a job that went through every step
C10_Witness ==
    job.trace = << "CLONE", "CHECKOUT", "PRE_BUILD_HOOK", "PATCH", "ARCHIVE", "PREPARE",
                   "INSTALL_BUILD_DEPS", "BUILD", "FALLBACK_BUILD", "DONE" >>

(* ------------------------------------------------------------------------ *)
\* C11: PATCH is executed for a job only if the job's apply_patches switch is
\* true and the checkout has a directory named patches: whenever PATCH is among
\* the steps of the job at hand, apply_patches is not false and
\* <name>/patches exists.
C11_PatchOnlyWithSubdir ==
    "PATCH" \in Steps
        => /\ ~("apply_patches" \in DOMAIN job.package /\ ~job.package.apply_patches)
           /\ job.subdir

(* ------------------------------------------------------------------------ *)
\* C12: a failed primary build is retried exactly once.  A primary build that
\* exits non-zero is followed by the fallback build and does not fail the job;
\* one that exits zero ends the job with no second build.  The fallback build
\* runs only after a failed primary build, uses the binary-only command when
\* the job sets no build_cmd, and ends the job either way: when it exits
\* non-zero the job is logged as failed and the script goes on with the
\* collector.  So the build step appears at most twice among a job's steps.
BuildSteps == { k \in 1..Len(job.trace) : job.trace[k] \in {"BUILD", "FALLBACK_BUILD"} }
C12_Step ==
    /\ (pc = "BUILD" /\ CommandFails)
          => pc' = "FALLBACK_BUILD" /\ failed' = failed /\ i' = i
    /\ (pc = "BUILD" /\ ~CommandFails)
          => pc' = "cleanup" /\ failed' = failed /\ Last(job'.cmds).ok
    /\ pc = "FALLBACK_BUILD"
          => /\ Last(job.trace) = "BUILD"
             /\ ~Last(job.cmds).ok
             /\ Len(job'.cmds) = Len(job.cmds) + 1
             /\ "build_cmd" \notin DOMAIN job.package
                   => Last(job'.cmds).cmd = "dpkg-buildpackage -uc -us -tc -b"
             /\ pc' = "cleanup"
             /\ i' = i
             /\ IF CommandFails
                THEN /\ failed' = failed \cup {i}
                     /\ Last(job'.log).msg = JobFatalLine
                     /\ Last(job'.log).name = job.package.name
                ELSE failed' = failed
NewCmds == SubSeq(job'.cmds, Len(job.cmds) + 1, Len(job'.cmds))
C13_Step ==
    pc = "INSTALL_BUILD_DEPS"
        => /\ pc' = "BUILD"
           /\ i' = i
           /\ failed' = failed
           /\ exitCode' = exitCode
           /\ IF NewCmds = <<>>
              THEN job' = job
              ELSE /\ job'.trace = Append(job.trace, "INSTALL_BUILD_DEPS")
                   /\ NewCmds[1].cmd = MkBuildDeps
                   /\ Len(NewCmds) <= 2
                   /\ Len(NewCmds) = 2 <=> NewCmds[1].ok
                   /\ Len(NewCmds) = 2 => NewCmds[2].cmd = DpkgBuildDeps
                   /\ IF Last(NewCmds).ok
                      THEN job'.log = job.log
                      ELSE /\ Len(job'.log) = Len(job.log) + 1
                           /\ Last(job'.log).e = Last(NewCmds).cmd
\* C13: the installation of build dependencies never fails a job
C13_BuildDepsBestEffort ==
    /\ [][C13_Step]_vars
    /\ []("INSTALL_BUILD_DEPS" \in Steps => job.control)
    /\ []("INSTALL_BUILD_DEPS" \in Steps /\ pc \in {"cleanup", "copy", "loop"}
             => "BUILD" \in Steps)

\* mk-build-deps exited non-zero, dpkg -i was not run, the primary build
\* exited zero and the job ended successful
C13_Witness ==
    /\ pc = "cleanup"
    /\ "INSTALL_BUILD_DEPS" \in Steps
    /\ \E k \in 1..Len(job.cmds) : job.cmds[k].cmd = MkBuildDeps /\ ~job.cmds[k].ok
    /\ \A k \in 1..Len(job.cmds) : job.cmds[k].cmd # DpkgBuildDeps
    /\ Last(job.trace) = "DONE"
    /\ Last(job.cmds).ok
    /\ i \notin failed

(* ------------------------------------------------------------------------ *)
\* C14: a filesystem error in the Package Preparer ends the whole run.  The
\* Preparer touches the filesystem only for a job with prepare_package true
\* and a non-empty install_data; when it then fails, the failure is logged,
\* the script ends at once with a non-zero status, and neither BUILD nor the
\* collector of that job nor any step of a later job is executed.  With no
\* install text the Preparer writes nothing and the job goes on.
HasInstallData ==
    /\ "prepare_package" \in DOMAIN job.package
    /\ job.package.prepare_package
    /\ "install_data" \in DOMAIN job.package
    /\ job.package.install_data # ""
PrepareFails ==
    /\ Len(job'.log) > Len(job.log)
    /\ Last(job'.log).msg = "Failed to prepare package"
C14_Step ==
    /\ (pc = "PREPARE" /\ PrepareFails)
          => /\ HasInstallData
             /\ pc' = "exited"
             /\ exitCode' # 0
             /\ abortedBy' = "prepare_package"
             /\ job'.install = job.install
    /\ (pc = "PREPARE" /\ ~HasInstallData)
          => /\ pc' = "INSTALL_BUILD_DEPS"
             /\ job'.install = job.install
             /\ ~job'.install.exists
    /\ ~(pc = "exited" /\ abortedBy = "prepare_package")
\* C14: the Preparer's exception is not caught by the Package Builder
C14_PrepareFatal ==
    /\ [][C14_Step]_vars
    /\ [](abortedBy = "prepare_package"
             => /\ pc = "exited"
                /\ exitCode # 0
                /\ HasInstallData
                /\ Printed("Failed to prepare package")
                /\ Steps \cap {"INSTALL_BUILD_DEPS", "BUILD", "FALLBACK_BUILD"} = {}
                /\ job.removed = {}
                /\ job.copied = {})

\* the Preparer failed in job 1 of 2 and job 2 was never started
C14_Witness ==
    /\ pc = "exited"
    /\ abortedBy = "prepare_package"
    /\ i = 1
    /\ Len(packages) = 2
    /\ Last(job.log).msg = "Failed to prepare package"

(* ------------------------------------------------------------------------ *)
\* C15: the repository is cloned exactly when the job's working directory
\* does not exist at the start of the job, and no step removes a working
\* directory or replaces its content by another repository's.  So, over any
\* number of runs, a job whose working directory exists is not cloned again
\* and goes on to CHECKOUT in the directory as it is, whatever scm_url the
\* directory was cloned from.
C15_Step ==
    /\ workdirs \subseteq workdirs'
    /\ \A n \in workdirs : origin'[n] = origin[n]
    /\ pc = "CLONE"
          => IF job.package.name \in workdirs
             THEN /\ job' = job
                  /\ pc' = "CHECKOUT"
                  /\ workdirs' = workdirs
             ELSE /\ job.trace = <<>>
                  /\ job'.trace[1] = "CLONE"
                  /\ Len(job'.cmds) = 1
                  /\ Last(job'.cmds).cmd = "git clone"
                  /\ Last(job'.cmds).ok
                        => /\ job.package.name \in workdirs'
                           /\ origin'[job.package.name] = job.package.scm_url
\* C15: clone only without a working directory, and working directories stay
C15_CloneOnce ==
    /\ [][C15_Step]_vars
    /\ [](\A k \in 1..Len(job.cmds) : job.cmds[k].cmd = "git clone" => k = 1)
    /\ []((InJob /\ pc # "CLONE" /\ "CLONE" \notin Steps) => job.package.name \in workdirs)

\* in a second run a job is at CHECKOUT, not cloned, in a working directory
\* that was cloned from another scm_url than the job's
C15_Witness ==
    /\ run = 2
    /\ pc = "PRE_BUILD_HOOK"
    /\ job.trace = << "CHECKOUT" >>
    /\ job.package.name \in workdirs
    /\ origin[job.package.name] # job.package.scm_url

(* ------------------------------------------------------------------------ *)
\* C16: the two steps of the collector are independent and best-effort.  The
\* delete step is always followed by the copy step and the copy step by the
\* loop, whether or not either printed an error; neither ends the script,
\* fails the job or changes the exit status; from the loop the next job is
\* started while one is left.  A step that finds no file prints no error.
ErrorLines == { "Error cleaning up build dependencies", "Error copying packages" }
NewLines == SubSeq(job'.log, Len(job.log) + 1, Len(job'.log))
C16_Step ==
    /\ pc = "cleanup"
          => /\ pc' = "copy"
             /\ debs[job.package.name] \cap {BuildDepsDeb} = {}
                   => \A k \in 1..Len(NewLines) : NewLines[k].msg \notin ErrorLines
    /\ pc = "copy"
          => /\ pc' = "loop"
             /\ debs[job.package.name] = {} => job'.log = job.log /\ job'.copied = {}
    /\ pc \in {"cleanup", "copy"}
          => /\ i' = i
             /\ failed' = failed
             /\ exitCode' = exitCode
             /\ abortedBy' = abortedBy
    /\ (pc = "loop" /\ i < Len(packages) /\ i > 0)
          => pc' = "CLONE" /\ i' = i + 1
\* C16: an exception in the collector never leaves the collector
C16_CollectorBestEffort ==
    /\ [][C16_Step]_vars
    /\ [](abortedBy \notin {"cleanup_build_deps", "copy_packages"})

\* both steps of job 1 of 2 printed their error, and the loop starts job 2
C16_Witness ==
    /\ pc = "loop"
    /\ i = 1
    /\ Len(packages) = 2
    /\ Printed("Error cleaning up build dependencies")
    /\ Printed("Error copying packages")
    /\ ENABLED NextPackage

(* ------------------------------------------------------------------------ *)
\* C17, as stated: a missing or malformed configuration document is the only
\* failure that ends the script before any job; a script that loaded its
\* configuration and has a job to run does not end before its first job was
\* started.
C17_OnlyConfigHalts ==
    (pc = "exited" /\ document.ok /\ packages # <<>>) => i >= 1

\* C17, amended: the script ends before any job only when the configuration
\* document is missing or malformed, when a command of the global dependency
\* installer exits non-zero, or when the job list is empty.  In every run
\* where the configuration is loaded and no command of the dependency
\* installer fails, the loop is reached and starts the first job of the list.
C17_Step ==
    /\ (pc = "start" /\ document.ok) => pc' = "deps"
    /\ (pc = "deps" /\ \A k \in 1..Len(aptCmds') : aptCmds'[k].ok) => pc' = "loop"
    /\ (pc = "loop" /\ i = 0 /\ packages # <<>>)
          => pc' = "CLONE" /\ i' = 1 /\ job'.package = packages[1]
\* C17: what ends the script before any job
C17_HaltsBeforeJobs ==
    /\ [][C17_Step]_vars
    /\ []((pc = "exited" /\ i = 0)
             => \/ abortedBy = "config" /\ ~document.ok
                \/ abortedBy = "ensure_dependencies" /\ document.ok /\ AptFailed
                \/ abortedBy = "" /\ document.ok /\ packages = <<>> /\ exitCode = 0)

\* the configuration was loaded, both commands of the dependency installer
\* exited zero and the first job has been started
C17_Witness ==
    /\ pc = "CLONE"
    /\ i = 1
    /\ job.trace = <<>>
    /\ job.package = packages[1]
    /\ Len(aptCmds) = 2
    /\ ~AptFailed

(* ------------------------------------------------------------------------ *)
\* C18: the collector runs exactly once for every job whose build_package
\* returns, whether or not the job failed.  Every return of build_package is
\* followed by the delete step, the delete step by the copy step, the copy
\* step by the loop, and neither step is entered any other way.  The copy
\* step copies every package file found in the working directory, also the
\* files an earlier run left there and also for a job whose build failed in
\* this run.
BuilderReturns ==
    /\ InBuildPackage
    /\ job'.trace # <<>>
    /\ Last(job'.trace) = "DONE"
    /\ pc' # "exited"
C18_Step ==
    /\ BuilderReturns => pc' = "cleanup" /\ job'.removed = {} /\ job'.copied = {}
    /\ (pc' = "cleanup" /\ pc # "cleanup") => BuilderReturns
    /\ pc = "cleanup" => pc' = "copy"
    /\ (pc' = "copy" /\ pc # "copy") => pc = "cleanup"
    /\ pc = "copy"
          => /\ pc' = "loop"
             /\ job'.copied \subseteq debs[job.package.name]
             /\ job'.log = job.log => job'.copied = debs[job.package.name]
\* C18: the collector also runs for a failed job and copies what it finds
C18_CollectorOnce ==
    /\ [][C18_Step]_vars
    /\ []((pc = "loop" /\ i >= 1 /\ ~Printed("Error copying packages"))
             => job.copied = debs[job.package.name])

\* second run of a one-job list: the job failed in this run and the package
\* file the first run built was copied
C18_Witness ==
    /\ run = 2
    /\ Len(packages) = 1
    /\ pc = "loop"
    /\ i \in failed
    /\ Last(job.trace) = "DONE"
    /\ PackageDeb \in job.copied

(* ------------------------------------------------------------------------ *)
\* C19: the delete step runs before the copy step.  When the delete step ended
\* without an error, the working directory holds no build-dependency package
\* when the copy step runs, and none is copied for that job; a
\* build-dependency package is among the copied files only if the delete step
\* of that job printed its error.
DeleteFailed == Printed("Error cleaning up build dependencies")
C19_Step ==
    /\ pc' = "copy" => pc = "cleanup" \/ pc = "copy"
    /\ pc = "cleanup"
          => /\ job.copied = {}
             /\ job'.copied = {}
             /\ job'.removed \subseteq { "package-build-deps.deb" }
    /\ pc = "copy"
          => DeleteFailed \/ "package-build-deps.deb" \notin debs[job.package.name]
\* C19: no build-dependency package is copied after a delete step without error
C19_NoBuildDepsCopied ==
    /\ [][C19_Step]_vars
    /\ []("package-build-deps.deb" \in job.copied => DeleteFailed)
    /\ []((pc \in {"copy", "loop"} /\ i >= 1 /\ ~DeleteFailed)
             => "package-build-deps.deb" \notin debs[job.package.name])

\* the build-dependency package was removed without error and the package
\* file alone was copied
C19_Witness ==
    /\ pc = "loop"
    /\ job.removed = { "package-build-deps.deb" }
    /\ ~DeleteFailed
    /\ job.copied = { "package.deb" }

(* ------------------------------------------------------------------------ *)
\* C20: which command the retry runs depends on build_cmd.  For a job without
\* build_cmd the primary build is "dpkg-buildpackage -uc -us -tc -F" and the
\* retry is "dpkg-buildpackage -uc -us -tc -b"; for a job with build_cmd both
\* the primary build and the retry run the configured command.  So the two
\* commands differ exactly for the jobs without build_cmd.
Retried == "FALLBACK_BUILD" \in Steps
PrimaryCmd == job.cmds[Len(job.cmds) - 1].cmd
RetryCmd == job.cmds[Len(job.cmds)].cmd
C20_RetryCommand ==
    /\ ("BUILD" \in Steps /\ ~Retried)
          => Last(job.cmds).cmd = IF "build_cmd" \in DOMAIN job.package
                                  THEN job.package.build_cmd
                                  ELSE "dpkg-buildpackage -uc -us -tc -F"
    /\ Retried
          => /\ Len(job.cmds) >= 2
             /\ IF "build_cmd" \in DOMAIN job.package
                THEN /\ PrimaryCmd = job.package.build_cmd
                     /\ RetryCmd = job.package.build_cmd
                ELSE /\ PrimaryCmd = "dpkg-buildpackage -uc -us -tc -F"
                     /\ RetryCmd = "dpkg-buildpackage -uc -us -tc -b"
             /\ PrimaryCmd # RetryCmd <=> "build_cmd" \notin DOMAIN job.package

\* a job with build_cmd was retried with the command that had just failed
C20_Witness ==
    /\ Retried
    /\ "build_cmd" \in DOMAIN job.package
    /\ ~job.cmds[Len(job.cmds) - 1].ok
    /\ PrimaryCmd = RetryCmd

==============================================================================
